---- MODULE Spec2Model ----
(***************************************************************************)
(* Model of phoebe/backend/decorators.py: the mpirun decorator (do_run),   *)
(* construct_mpirun_command, merge_synthetic and prepare_ltt.              *)
(***************************************************************************)
EXTENDS Integers, Sequences, FiniteSets, TLC

\* ------------------------------------------------------------------ bounds
\* longest list held by a field of a synthetic parameterSet
MaxLen == 2
\* most bodies handed to one merge_synthetic call
MaxBodies == 3
\* most qstat polls counted (the counter saturates; the loop itself is unbounded)
MaxPolls == 2
\* temporary file names available in the artifact directory
NumNames == 4

\* ------------------------------------------------------------ data model
\* A synthetic parameterSet is a record: its context, the body that owns it,
\* the scalar 'ref', the list 'columns' (when present) and the list fields.
ListKeys == {"time", "flux", "sigma"}

\* iteration order of "for key in parset"
KeyOrder == <<"ref", "columns", "time", "flux", "sigma">>

Range(s) == {s[i] : i \in 1..Len(s)}

Min(a, b) == IF a <= b THEN a ELSE b

\* 'columns' in parset
HasColumns(parset) == parset.hasColumns

\* key in parset
HasKey(parset, key) == IF key = "columns" THEN HasColumns(parset) ELSE TRUE

\* isinstance(parset[key], list)
IsList(parset, key) == key \in ListKeys \cup {"columns"}

\* parset.context[-3:] == 'syn'
IsSyn(parset) == parset.context \in {"lcsyn", "rvsyn", "orbsyn"}

\* 'columns' in parset and not key in parset['columns']   (-> continue)
SkipKey(parset, key) == HasColumns(parset) /\ key \notin Range(parset.columns)

\* iteration[0][key] += value
ExtendReplace(primary, key, value) == [primary EXCEPT ![key] = value]
Extend(primary, key, value) == [primary EXCEPT ![key] = @ \o value]

\* body of "for key in parset", for the keys KeyOrder[k..]
RECURSIVE MergeKeys(_, _, _)
MergeKeys(primary, parset, k) ==
    IF k > Len(KeyOrder) THEN primary
    ELSE LET key == KeyOrder[k]
             next == IF ~HasKey(parset, key) THEN primary
                     ELSE IF SkipKey(parset, key) THEN primary
                     ELSE IF IsList(parset, key)
                          THEN Extend(primary, key, parset[key])
                          ELSE primary
         IN MergeKeys(next, parset, k + 1)

\* body of "for parset in iteration[1:]" for one replica's parameterSet
MergeParset(primary, parset) ==
    IF IsSyn(parset) THEN MergeKeys(primary, parset, 1) ELSE primary

\* "for parset in iteration[1:]": replicas j..N folded into the primary's
\* i-th parameterSet, in list order
RECURSIVE MergeIteration(_, _, _, _)
MergeIteration(primary, bodies, i, j) ==
    IF j > Len(bodies) THEN primary
    ELSE MergeIteration(MergeParset(primary, bodies[j][i]), bodies, i, j + 1)

\* zip(*iterators) stops at the shortest walk
RECURSIVE MinWalk(_, _)
MinWalk(bodies, j) ==
    IF j = Len(bodies) THEN Len(bodies[j])
    ELSE Min(Len(bodies[j]), MinWalk(bodies, j + 1))

ZipLen(bodies) == MinWalk(bodies, 1)

\* merge_synthetic(list_of_bodies): the index of a body in the list stands for
\* the object's identity; the list afterwards, and the object returned.
ReturnedBodyLast(bodies) == Len(bodies)
ReturnedBody(bodies) == 1

merge_synthetic(bodies) ==
    LET n == ZipLen(bodies)
        first == [i \in 1..Len(bodies[1]) |->
                    IF i <= n THEN MergeIteration(bodies[1][i], bodies, i, 2)
                    ELSE bodies[1][i]]
    IN [bodies |-> [bodies EXCEPT ![1] = first], ret |-> ReturnedBody(bodies)]

\* ------------------------------------------------- bounded input bodies
\* a list of length len whose values tell the body (seed) they come from
MkList(len, seed) == [i \in 1..len |-> 10 * seed + i]

\* the 'columns' of a synthetic parameterSet: none at all, or a list of field names
ColumnChoices == << <<>>, <<"time", "flux">>, <<"flux">>, <<>> >>

MkParset(ctx, ref, owner, colsIdx, len, seed) ==
    [context |-> ctx, body |-> owner, ref |-> ref,
     hasColumns |-> (colsIdx # 1), columns |-> ColumnChoices[colsIdx],
     time |-> MkList(len, seed), flux |-> MkList(len, seed),
     sigma |-> MkList(len, seed)]

RefShapes == << <<"lc01">>, <<"lc01", "__bol">>, <<"rv01", "__bol">> >>

MkBody(p, seed) ==
    [i \in 1..Len(RefShapes[p.refs]) |->
        MkParset("lcsyn", RefShapes[p.refs][i], 1, p.cols, p.len, seed)]

BodyParams ==
    [refs : 1..Len(RefShapes), cols : 1..Len(ColumnChoices), len : 0..MaxLen]

\* how a replica differs from the primary
Variations == [refs : BOOLEAN, cols : BOOLEAN, len : BOOLEAN]

Vary(p, v) ==
    [refs |-> IF v.refs THEN (p.refs % Len(RefShapes)) + 1 ELSE p.refs,
     cols |-> IF v.cols THEN (p.cols % Len(ColumnChoices)) + 1 ELSE p.cols,
     len  |-> IF v.len THEN (p.len + 1) % (MaxLen + 1) ELSE p.len]

\* ------------------------------------------------------ prepare_ltt
\* datasets.DataSet('orbsyn', ref='ltt'): an empty dataset
OrbsynPlaceholder(owner) ==
    [context |-> "orbsyn", body |-> owner, ref |-> "ltt",
     hasColumns |-> TRUE, columns |-> <<"time">>,
     time |-> <<>>, flux |-> <<>>, sigma |-> <<>>]

\* the synthetic parameterSets of one body, in walk order
RECURSIVE SynOf(_, _)
SynOf(syn, b) ==
    IF syn = <<>> THEN <<>>
    ELSE IF Head(syn).body = b THEN <<Head(syn)>> \o SynOf(Tail(syn), b)
    ELSE SynOf(Tail(syn), b)

\* body.params['syn']['orbsyn'] = OrderedDict(); ...[orbsyn['ref']] = orbsyn
\* an existing 'orbsyn' category keeps its place and loses its old content,
\* a new one goes last
RECURSIVE SetOrbsyn(_, _, _)
SetOrbsyn(seg, b, placed) ==
    IF seg = <<>> THEN (IF placed THEN <<>> ELSE <<OrbsynPlaceholder(b)>>)
    ELSE IF Head(seg).context = "orbsyn"
         THEN (IF placed THEN <<>> ELSE <<OrbsynPlaceholder(b)>>)
              \o SetOrbsyn(Tail(seg), b, TRUE)
         ELSE <<Head(seg)>> \o SetOrbsyn(Tail(seg), b, placed)

LttBodiesFirstOnly(syn, b, nb) ==
    SetOrbsyn(SynOf(syn, 1), 1, FALSE) \o SelectSeq(syn, LAMBDA parset : parset.body # 1)

\* "for body in bodies": bodies b..nb
RECURSIVE LttBodies(_, _, _)
LttBodies(syn, b, nb) ==
    IF b > nb THEN <<>>
    ELSE SetOrbsyn(SynOf(syn, b), b, FALSE) \o LttBodies(syn, b + 1, nb)

prepare_ltt(sys) == [sys EXCEPT !.syn = LttBodies(sys.syn, 1, sys.nb)]

\* --------------------------------------------------- do_run: the state
\* Every variable of do_run is indexed by the call (dispatch) it belongs to;
\* the artifact directory fs is shared by the calls.
DispIds == {1, 2}

\* exit statuses of the backend command
ExitStatuses == {0, 1, 2}

\* values of mpirun_par['np']
NpValues == {0, 1, 2}

Backends == {"mpi", "slurm", "torque"}

\* the input artifacts, in the order do_run writes them
FileKinds == <<"sys", "args", "kwargs">>

\* the calls made on the system after the clean-up
PostCallsSwapped == <<"set_time(0)", "bin_oversampling", "compute_pblum_or_l3",
                      "set_pblum_or_l3", "compute_scale_or_offset", "postprocess">>
PostCalls == <<"bin_oversampling", "set_time(0)", "compute_pblum_or_l3",
               "set_pblum_or_l3", "compute_scale_or_offset", "postprocess">>

\* names of the file operations in the log
Ev == [create |-> [sys |-> "create_sys", args |-> "create_args", kwargs |-> "create_kwargs"],
       dump   |-> [sys |-> "dump_sys", args |-> "dump_args", kwargs |-> "dump_kwargs"],
       close  |-> [sys |-> "close_sys", args |-> "close_args", kwargs |-> "close_kwargs"],
       unlink |-> [sys |-> "unlink_sys", args |-> "unlink_args", kwargs |-> "unlink_kwargs"]]

\* a file of the directory: what it holds, whether it is open, and the
\* dispatch whose NamedTemporaryFile call made it (0 = none of them)
Absent == [kind |-> "absent", open |-> FALSE, data |-> <<>>, owner |-> 0]
Foreign == [kind |-> "foreign", open |-> FALSE, data |-> <<>>, owner |-> 0]

\* names of the artifact directory: NumNames of them, and room for the
\* artifacts of a second dispatch
Names == 1..(NumNames + Len(FileKinds))

\* the directory before a dispatch: every name beyond NumNames is taken by
\* a file of somebody else, and so is the first
InitialFs == [n \in Names |-> IF n = 1 \/ n > NumNames THEN Foreign ELSE Absent]

\* the directory before two dispatches that share it
SharedFs == [n \in Names |-> IF n = 1 THEN Foreign ELSE Absent]

NoPar == [kind |-> "absent", context |-> "", np |-> 0, partition |-> ""]
NoSystem == [nb |-> 0, len0 |-> 0, work |-> 0, syn |-> <<>>]
NoKwargs == [mpi |-> NoPar, params |-> "absent", valid |-> TRUE, ltt |-> FALSE]
NoFiles == [sys |-> 0, args |-> 0, kwargs |-> 0]

\* a system of nb bodies, each with one light-curve synthetic of length len;
\* 'work' is the number of values one worker computes per list of a synthetic
MkSystem(nb, len, work) ==
    [nb |-> nb, len0 |-> len, work |-> work,
     syn |-> [b \in 1..nb |-> MkParset("lcsyn", "lc01", b, 2, len, 0)]]

\* what the worker of the given rank computes: the task with every list
\* replaced by len values of its own
WorkerOutput(syn, len, rank) ==
    [i \in 1..Len(syn) |->
        [syn[i] EXCEPT !.time = MkList(len, rank), !.flux = MkList(len, rank),
                       !.sigma = MkList(len, rank)]]

\* the result artifact: the outputs of the np workers, folded in the order the
\* workers were started
Gathered(syn, np, len) ==
    merge_synthetic([rank \in 1..np |-> WorkerOutput(syn, len, rank)]).bodies[1]

\* ------------------------------------ construct_mpirun_command: the command
\* A command line is a sequence of pieces of text; a number is rendered into
\* its decimal digits, so that what reaches the shell can be compared.
Digit == <<"0", "1", "2", "3", "4", "5", "6", "7", "8", "9">>

\* str(n), '{}'.format(n) and '{:.0f}'.format(n) of a whole number n >= 0
RECURSIVE Dec(_)
Dec(n) == IF n < 10 THEN <<Digit[n + 1]>>
          ELSE Dec(n \div 10) \o <<Digit[(n % 10) + 1]>>

\* "%02d" % n: at least two digits, zero padded
Pad2(n) == IF n < 10 THEN <<"0">> \o Dec(n) ELSE Dec(n)

\* the fields of the 'mpi', 'mpi:slurm' and 'mpi:torque' parameterSets
DefaultConfig ==
    [context |-> "mpi", np |-> 4, hostfile |-> "", byslot |-> FALSE,
     python |-> "python", memory |-> 0, time |-> 0, partition |-> "",
     nodes |-> 1, email |-> "", alerts |-> "", jobname |-> ""]

\* os.path.join(<package directory>, script_dir, script)
MpirunLoc == "phoebe/backend/mpirun.py"

\* byslot = '--byslot' or ''
Byslot(cfg) == IF cfg.byslot THEN <<"--byslot">> ELSE <<>>

\* hostfile = '--hostfile {}'.format(mpirun_par['hostfile']) or ''
Hostfile(cfg) == IF cfg.hostfile # "" THEN <<"--hostfile ", cfg.hostfile>> ELSE <<>>

\* "{hostfile} {byslot} {python} {mpirun_loc} {args}"
MpirunTail(cfg, args) ==
    Hostfile(cfg) \o <<" ">> \o Byslot(cfg) \o <<" ", cfg.python, " ", MpirunLoc, " ", args>>

\* context 'mpi'
LocalCommand(cfg, args) ==
    <<"mpiexec -np ">> \o Dec(cfg.np) \o <<" ">> \o MpirunTail(cfg, args)

\* context 'slurm': memory = '--mem={:.0f}'.format(...) or ''
SlurmMemory(cfg) == IF cfg.memory = 0 THEN <<>> ELSE <<"--mem=">> \o Dec(cfg.memory)

\* time_ = '--time={:.0f}'.format(...) or ''
SlurmTime(cfg) == IF cfg.time = 0 THEN <<>> ELSE <<"--time=">> \o Dec(cfg.time)

\* partition = '--partition={:.0f}'.format(mpirun_par['partition']) or '':
\* the partition is a name, and format code 'f' applied to a str raises
\* ValueError, so only the empty partition gets past this statement
SlurmPartitionRaises(cfg) == cfg.partition # ""

\* ... and the one value it can leave in 'partition'
SlurmPartition(cfg) == <<>>

SlurmCommand(cfg, args) ==
    <<"srun ">> \o SlurmTime(cfg) \o <<" ">> \o SlurmMemory(cfg) \o <<" ">>
    \o SlurmPartition(cfg) \o <<" mpirun -np ">>
    \o Dec(cfg.np) \o <<" ">> \o MpirunTail(cfg, args)

\* context 'torque': memory = ',mppmem={:.0f}M'.format(...) or ''
TorqueMemory(cfg) ==
    IF cfg.memory # 0 THEN <<",mppmem=">> \o Dec(cfg.memory) \o <<"M">> ELSE <<>>

\* dt = timedelta(minutes=time); "%02d:%02d:%02d" % (s/3600, s%3600/60, s%60)
TorqueTime(cfg) ==
    LET secs == 60 * cfg.time
    IN Pad2(secs \div 3600) \o <<":">> \o Pad2((secs % 3600) \div 60)
       \o <<":">> \o Pad2(secs % 60)

\* if email: cmd += ' -M ..'; if alerts: cmd += ' -m ..' (inside the first if)
TorqueMail(cfg) ==
    IF cfg.email # ""
    THEN <<" -M ", cfg.email>> \o (IF cfg.alerts # "" THEN <<" -m ", cfg.alerts>> ELSE <<>>)
    ELSE <<>>

\* the qsub line; the local 'memory' is computed (TorqueMemory) but the format
\* string has no {memory} field, and ' -N ' is appended whatever the jobname
TorqueCommand(cfg, args) ==
    <<"echo \"mpirun ", cfg.python, " ", MpirunLoc, " ", args,
      "\" | qsub -V -l nodes=">> \o Dec(cfg.nodes) \o <<",walltime=">>
    \o TorqueTime(cfg) \o TorqueMail(cfg) \o <<" -N ", cfg.jobname>>

\* building the command raises (a ValueError of str.format)
BuildRaisesFewProcesses(cfg) == cfg.np < 2
BuildRaises(cfg) == cfg.context = "slurm" /\ SlurmPartitionRaises(cfg)

\* the command line handed to the shell
BuildCommand(cfg, args) ==
    IF cfg.context = "mpi" THEN LocalCommand(cfg, args)
    ELSE IF cfg.context = "slurm" THEN SlurmCommand(cfg, args)
    ELSE TorqueCommand(cfg, args)

\* mpirun_par.get_context().split(':')[-1]
BackendTagLocal(cfg) == "mpi"
BackendTag(cfg) == cfg.context

\* bounded configurations and argument strings for direct calls
CmdConfigs ==
    [context : Backends, np : {1, 2, 4}, hostfile : {"", "hosts"},
     byslot : BOOLEAN, python : {"python"}, memory : {0, 512},
     time : {0, 90, 6000}, partition : {"", "long"}, nodes : {2},
     email : {"", "me@uni"}, alerts : {"", "abe"}, jobname : {"", "job1"}]

CmdArgs == {"", "fctn sys args kwargs"}


VARIABLES
    list_of_bodies,   \* merge_synthetic: the argument as given
    merged,           \* merge_synthetic: the bodies after the call
    merge_ret,        \* merge_synthetic: identity (list index) of the object returned, 0 = none yet
    merge_pc,         \* "idle" | "called" | "returned"
    pc,               \* do_run: position of each dispatch
    kwargs,           \* do_run: the keyword arguments
    mpirun_par,       \* do_run: the resource configuration popped from kwargs
    system,           \* do_run: the system object
    has_fix_mesh,     \* hasattr(system, 'fix_mesh')
    files,            \* sys_file.name, args_file.name, kwargs_file.name (0 = not bound)
    cur,              \* index of the artifact / post-processing call in hand
    fs,               \* the artifact directory: name -> file
    cmd,              \* the backend command: "none" | "running" | "returned"
    flag,             \* exit flag of construct_mpirun_command (-1 = none yet)
    job,              \* Torque: state of the submitted job ("none", "Q", "R", "C")
    npolls,           \* Torque: qstat polls issued (saturates at MaxPolls)
    status,           \* Torque: status token of the latest poll
    results,          \* do_run: the unpickled result
    outcome,          \* how do_run ended: "none" | "returned" | the exception
    retval,           \* what do_run returned
    output,           \* do_run: what the wrapped function returned to it
    log,              \* calls and file operations of the dispatch, in order
    cc_par,           \* construct_mpirun_command called directly: mpirun_par
    cc_args,          \* ... its args
    cc_pc,            \* ... "idle" | "called" | "built" | "returned" | "raised"
    cc_cmd,           \* ... the local cmd
    cc_run,           \* ... the command lines given to the shell, in order
    cc_ret            \* ... the pair returned

mergeVars == <<list_of_bodies, merged, merge_ret, merge_pc>>

runVars == <<pc, kwargs, mpirun_par, system, has_fix_mesh, files, cur, fs, cmd,
             flag, job, npolls, status, results, outcome, retval, output,
             log>>

cmdVars == <<cc_par, cc_args, cc_pc, cc_cmd, cc_run, cc_ret>>

vars == <<list_of_bodies, merged, merge_ret, merge_pc,
          pc, kwargs, mpirun_par, system, has_fix_mesh, files, cur, fs, cmd,
          flag, job, npolls, status, results, outcome, retval, output, log,
          cc_par, cc_args, cc_pc, cc_cmd, cc_run, cc_ret>>

MergeIdle ==
    /\ list_of_bodies = <<>>
    /\ merged = <<>>
    /\ merge_ret = 0
    /\ merge_pc = "idle"

RunIdleIn(dir) ==
    /\ pc = [d \in DispIds |-> "idle"]
    /\ kwargs = [d \in DispIds |-> NoKwargs]
    /\ mpirun_par = [d \in DispIds |-> NoPar]
    /\ system = [d \in DispIds |-> NoSystem]
    /\ has_fix_mesh = [d \in DispIds |-> FALSE]
    /\ files = [d \in DispIds |-> NoFiles]
    /\ cur = [d \in DispIds |-> 0]
    /\ fs = dir
    /\ cmd = [d \in DispIds |-> "none"]
    /\ flag = [d \in DispIds |-> -1]
    /\ job = [d \in DispIds |-> "none"]
    /\ npolls = [d \in DispIds |-> 0]
    /\ status = [d \in DispIds |-> ""]
    /\ results = [d \in DispIds |-> <<>>]
    /\ outcome = [d \in DispIds |-> "none"]
    /\ retval = [d \in DispIds |-> "none"]
    /\ output = [d \in DispIds |-> "none"]
    /\ log = [d \in DispIds |-> <<>>]

RunIdle == RunIdleIn(InitialFs)

NoReturn == [flag |-> -1, tag |-> ""]

CmdIdle ==
    /\ cc_par = DefaultConfig
    /\ cc_args = ""
    /\ cc_pc = "idle"
    /\ cc_cmd = <<>>
    /\ cc_run = <<>>
    /\ cc_ret = NoReturn

\* ------------------------------------------- specification SpecMerge
\* merge_synthetic applied to every bounded list of bodies
InitMerge ==
    /\ \E n \in 1..MaxBodies :
         \E p \in BodyParams :
           \E vs \in [2..n -> Variations] :
             \E sameSeed \in BOOLEAN :
               list_of_bodies = [j \in 1..n |->
                   IF j = 1 THEN MkBody(p, 0)
                   ELSE MkBody(Vary(p, vs[j]), IF sameSeed THEN 0 ELSE j - 1)]
    /\ merged = <<>>
    /\ merge_ret = 0
    /\ merge_pc = "called"
    /\ RunIdle
    /\ CmdIdle

MergeCall ==
    /\ merge_pc = "called"
    /\ LET r == merge_synthetic(list_of_bodies)
       IN /\ merged' = r.bodies
          /\ merge_ret' = r.ret
    /\ merge_pc' = "returned"
    /\ UNCHANGED list_of_bodies
    /\ UNCHANGED runVars
    /\ UNCHANGED cmdVars
    /\ UNCHANGED output

NextMerge == MergeCall

SpecMerge == InitMerge /\ [][NextMerge]_vars

\* ------------------------------------------------ do_run: the steps
Upd(f, d, v) == [f EXCEPT ![d] = v]

Logged(d, e) == log' = [log EXCEPT ![d] = Append(@, e)]

\* control leaves do_run by an exception (or by SystemExit)
Raise(d, exc) ==
    /\ pc' = Upd(pc, d, "done")
    /\ outcome' = Upd(outcome, d, exc)

FileName(d, kind) == files[d][kind]

\* os.path.isfile(name)
IsFile(fsv, name) == name \in Names /\ fsv[name].kind # "absent"

\* the caller's arguments: any system, any keyword arguments
CallInputs ==
    [mpi : {NoPar, [NoPar EXCEPT !.kind = "None"], [NoPar EXCEPT !.kind = "True"]}
           \cup [kind : {"par"}, context : Backends, np : NpValues, partition : {""}]
           \cup [kind : {"par"}, context : {"slurm"}, np : NpValues, partition : {"long"}],
     params : {"absent", "given"},
     valid : BOOLEAN,
     ltt : BOOLEAN]

\* do_run(system, *args, **kwargs) is called with the keyword arguments kw
CallWith(d, kw, sys, fm) ==
    /\ pc[d] = "idle"
    /\ kwargs' = Upd(kwargs, d, kw)
    /\ system' = Upd(system, d, sys)
    /\ has_fix_mesh' = Upd(has_fix_mesh, d, fm)
    /\ pc' = Upd(pc, d, "entry")
    /\ UNCHANGED <<mpirun_par, files, cur, fs, cmd, flag, job, npolls, status,
                   results, outcome, retval, log>>
    /\ UNCHANGED mergeVars
    /\ UNCHANGED cmdVars
    /\ UNCHANGED output

\* ... with any of the bounded keyword arguments
Call(d) ==
    /\ pc[d] = "idle"
    /\ \E kw \in CallInputs, nb \in 1..2, fm \in BOOLEAN :
         /\ (kw.params = "given") => kw.valid
         /\ CallWith(d, kw, MkSystem(nb, 1, 1), fm)

\* ... with mpi = <ParameterSet context 'mpi', np> and computed params
LocalKwargs(np) ==
    [mpi |-> [kind |-> "par", context |-> "mpi", np |-> np, partition |-> ""],
     params |-> "given", valid |-> TRUE, ltt |-> FALSE]

LocalNp == {2, 3, 4}

CallLocal(d) ==
    /\ pc[d] = "idle"
    /\ \E np \in LocalNp, nb \in 1..2, len \in 0..(MaxLen - 1), work \in 1..MaxLen :
         CallWith(d, LocalKwargs(np), MkSystem(nb, len, work), TRUE)

\* ... with mpi = <ParameterSet context 'mpi:torque'> and computed params
TorqueKwargs ==
    [mpi |-> [kind |-> "par", context |-> "torque", np |-> 2, partition |-> ""],
     params |-> "given", valid |-> TRUE, ltt |-> FALSE]

CallTorque(d) ==
    /\ pc[d] = "idle"
    /\ \E nb \in 1..2 : CallWith(d, TorqueKwargs, MkSystem(nb, 1, 1), TRUE)

\* ... one of two calls that run side by side, on a system of its own
CallShared(d) == CallWith(d, LocalKwargs(2), MkSystem(d, 1, 1), TRUE)

\* mpirun_par = kwargs.pop('mpi', None); if mpirun_par is None: ... else: ...
FastPathOnlyAbsent(par) == par.kind = "absent"
FastPathTaken(par) == par.kind \in {"absent", "None"}

Entry(d) ==
    /\ pc[d] = "entry"
    /\ mpirun_par' = Upd(mpirun_par, d,
                         IF kwargs[d].mpi.kind = "absent"
                         THEN [NoPar EXCEPT !.kind = "None"] ELSE kwargs[d].mpi)
    /\ kwargs' = [kwargs EXCEPT ![d].mpi = NoPar]
    /\ pc' = Upd(pc, d, IF FastPathTaken(kwargs[d].mpi) THEN "fast_mesh" ELSE "configure")
    /\ UNCHANGED <<system, has_fix_mesh, files, cur, fs, cmd, flag, job, npolls,
                   status, results, outcome, retval, log>>
    /\ UNCHANGED mergeVars
    /\ UNCHANGED cmdVars
    /\ UNCHANGED output

\* system.fix_mesh() if the system has it, else system.init_mesh()
MeshCall(d) == IF has_fix_mesh[d] THEN "fix_mesh" ELSE "init_mesh"

FastMesh(d) ==
    /\ pc[d] = "fast_mesh"
    /\ Logged(d, MeshCall(d))
    /\ pc' = Upd(pc, d, "fast_call")
    /\ UNCHANGED <<kwargs, mpirun_par, system, has_fix_mesh, files, cur, fs, cmd,
                   flag, job, npolls, status, results, outcome, retval>>
    /\ UNCHANGED mergeVars
    /\ UNCHANGED cmdVars
    /\ UNCHANGED output

\* output = fctn(system, *args, **kwargs); return output
FctnOutputs == {"None", "a", "b"}

FastPathReturnsNone(out) == "None"
FastPathReturns(out) == out

FastCall(d) ==
    /\ pc[d] = "fast_call"
    /\ Logged(d, "fctn")
    /\ \E out \in FctnOutputs :
          /\ output' = Upd(output, d, out)
          /\ retval' = Upd(retval, d, FastPathReturns(out))
    /\ outcome' = Upd(outcome, d, "returned")
    /\ pc' = Upd(pc, d, "done")
    /\ UNCHANGED <<kwargs, mpirun_par, system, has_fix_mesh, files, cur, fs, cmd,
                   flag, job, npolls, status, results>>
    /\ UNCHANGED mergeVars
    /\ UNCHANGED cmdVars

\* mpirun_par['np'] <= 1
TooFewProcessesNever(np) == FALSE
TooFewProcesses(np) == np <= 1

\* params = kwargs.pop('params', None) ... kwargs['params'] = params;
\* if mpirun_par is True: the default mpi parameterSet; the check of np
Configure(d) ==
    /\ pc[d] = "configure"
    /\ IF kwargs[d].params = "absent" /\ ~kwargs[d].valid
       THEN \* parameters.ParameterSet(context='compute', **kwargs) raises
            /\ Raise(d, "ParameterError")
            /\ kwargs' = kwargs
            /\ mpirun_par' = mpirun_par
       ELSE /\ kwargs' = [kwargs EXCEPT ![d].params = "set"]
            /\ \E np \in (IF mpirun_par[d].kind = "True" THEN NpValues
                          ELSE {mpirun_par[d].np}) :
                 LET par == IF mpirun_par[d].kind = "True"
                            THEN [kind |-> "par", context |-> "mpi", np |-> np, partition |-> ""]
                            ELSE mpirun_par[d]
                 IN /\ mpirun_par' = Upd(mpirun_par, d, par)
                    /\ IF TooFewProcesses(par.np)
                       THEN Raise(d, "ValueError")
                       ELSE /\ pc' = Upd(pc, d, "mesh")
                            /\ outcome' = outcome
    /\ UNCHANGED <<system, has_fix_mesh, files, cur, fs, cmd, flag, job, npolls,
                   status, results, retval, log>>
    /\ UNCHANGED mergeVars
    /\ UNCHANGED cmdVars
    /\ UNCHANGED output

\* try: fix_mesh / init_mesh
Mesh(d) ==
    /\ pc[d] = "mesh"
    /\ Logged(d, MeshCall(d))
    /\ pc' = Upd(pc, d, IF kwargs[d].ltt THEN "ltt" ELSE "create")
    /\ cur' = Upd(cur, d, 1)
    /\ UNCHANGED <<kwargs, mpirun_par, system, has_fix_mesh, files, fs, cmd,
                   flag, job, npolls, status, results, outcome, retval>>
    /\ UNCHANGED mergeVars
    /\ UNCHANGED cmdVars
    /\ UNCHANGED output

\* if kwargs.get('ltt', False): prepare_ltt(system)
PrepareLtt(d) ==
    /\ pc[d] = "ltt"
    /\ system' = Upd(system, d, prepare_ltt(system[d]))
    /\ Logged(d, "prepare_ltt")
    /\ pc' = Upd(pc, d, "create")
    /\ UNCHANGED <<kwargs, mpirun_par, has_fix_mesh, files, cur, fs, cmd,
                   flag, job, npolls, status, results, outcome, retval>>
    /\ UNCHANGED mergeVars
    /\ UNCHANGED cmdVars
    /\ UNCHANGED output

\* tempfile.NamedTemporaryFile(delete=False, dir=direc): a file that did not exist
\* in direc (fs is that directory, be it os.getcwd() or mpirun_par['directory'])
FreeNamesAny(fsv) == Names
FreeNames(fsv) == {n \in Names : ~IsFile(fsv, n)}

CreateNamed(d, n) ==
    /\ pc[d] = "create"
    /\ fs' = [fs EXCEPT ![n] = [kind |-> "empty", open |-> TRUE, data |-> <<>>,
                                 owner |-> d]]
    /\ files' = [files EXCEPT ![d][FileKinds[cur[d]]] = n]
    /\ Logged(d, Ev.create[FileKinds[cur[d]]])
    /\ pc' = Upd(pc, d, "dump")
    /\ UNCHANGED <<kwargs, mpirun_par, system, has_fix_mesh, cur, cmd,
                   flag, job, npolls, status, results, outcome, retval>>
    /\ UNCHANGED mergeVars
    /\ UNCHANGED cmdVars
    /\ UNCHANGED output

\* any name that is free
Create(d) ==
    /\ pc[d] = "create"
    /\ \E n \in FreeNames(fs) : CreateNamed(d, n)

\* the least name that is free: names are interchangeable, so a run that
\* takes another free name is this run with the names renamed
CreateLeast(d) ==
    /\ pc[d] = "create"
    /\ \E n \in FreeNames(fs) :
         /\ \A m \in FreeNames(fs) : n <= m
         /\ CreateNamed(d, n)

\* what pickle.dump writes into the artifact
Pickled(d, kind) ==
    IF kind = "sys"
    THEN [kind |-> "task", open |-> TRUE, data |-> system[d].syn, owner |-> d]
    ELSE [kind |-> kind, open |-> TRUE, data |-> <<>>, owner |-> d]

\* pickle.dump(system | args | kwargs, file): it may raise
Dump(d) ==
    /\ pc[d] = "dump"
    /\ LET kind == FileKinds[cur[d]]
       IN \/ /\ fs' = [fs EXCEPT ![FileName(d, kind)] = Pickled(d, kind)]
             /\ Logged(d, Ev.dump[kind])
             /\ pc' = Upd(pc, d, "close")
             /\ outcome' = outcome
          \/ /\ Raise(d, "PicklingError")
             /\ UNCHANGED <<fs, log>>
    /\ UNCHANGED <<kwargs, mpirun_par, system, has_fix_mesh, files, cur, cmd,
                   flag, job, npolls, status, results, retval>>
    /\ UNCHANGED mergeVars
    /\ UNCHANGED cmdVars
    /\ UNCHANGED output

\* file.close()
AfterCloseEarly(k) == "command"
AfterClose(k) == IF k < Len(FileKinds) THEN "create" ELSE "command"

Close(d) ==
    /\ pc[d] = "close"
    /\ LET kind == FileKinds[cur[d]]
       IN /\ fs' = [fs EXCEPT ![FileName(d, kind)].open = FALSE]
          /\ Logged(d, Ev.close[kind])
    /\ pc' = Upd(pc, d, AfterClose(cur[d]))
    /\ cur' = Upd(cur, d, IF cur[d] < Len(FileKinds) THEN cur[d] + 1 ELSE 0)
    /\ UNCHANGED <<kwargs, mpirun_par, system, has_fix_mesh, files, cmd,
                   flag, job, npolls, status, results, outcome, retval>>
    /\ UNCHANGED mergeVars
    /\ UNCHANGED cmdVars
    /\ UNCHANGED output

\* ------------------------------------ construct_mpirun_command
Context(d) == mpirun_par[d].context

\* the worker processes are at work while do_run is
BackendRunning(d) ==
    /\ pc[d] # "done"
    /\ \/ cmd[d] = "running" /\ Context(d) \in {"mpi", "slurm"}
       \/ job[d] = "R"

\* control returns from construct_mpirun_command with the flag f
CommandReturns(d, f) ==
    /\ flag' = Upd(flag, d, f)
    /\ cmd' = Upd(cmd, d, "returned")
    /\ pc' = Upd(pc, d, "check_flag")

\* the configuration of the dispatch, as construct_mpirun_command reads it
FullConfig(par) ==
    [DefaultConfig EXCEPT !.context = par.context, !.np = par.np,
                          !.partition = par.partition]

\* building the command raises: the exception passes through do_run
CommandRaises(d) ==
    /\ pc[d] = "command"
    /\ BuildRaises(FullConfig(mpirun_par[d]))
    /\ Raise(d, "ValueError(format)")
    /\ UNCHANGED <<kwargs, mpirun_par, system, has_fix_mesh, files, cur, fs, cmd,
                   flag, job, npolls, status, results, retval, log>>
    /\ UNCHANGED mergeVars
    /\ UNCHANGED cmdVars
    /\ UNCHANGED output

\* contexts 'mpi' and 'slurm': flag = subprocess.call(cmd, shell=True), start
Launch(d) ==
    /\ pc[d] = "command"
    /\ Context(d) \in {"mpi", "slurm"}
    /\ ~BuildRaises(FullConfig(mpirun_par[d]))
    /\ cmd' = Upd(cmd, d, "running")
    /\ Logged(d, "cmd_start")
    /\ pc' = Upd(pc, d, "wait")
    /\ UNCHANGED <<kwargs, mpirun_par, system, has_fix_mesh, files, cur, fs,
                   flag, job, npolls, status, results, outcome, retval>>
    /\ UNCHANGED mergeVars
    /\ UNCHANGED cmdVars
    /\ UNCHANGED output

\* ... and its end: the flag is the exit status of the command
CmdExit(d) ==
    /\ pc[d] = "wait"
    /\ \E f \in ExitStatuses : CommandReturns(d, f)
    /\ Logged(d, "cmd_return")
    /\ UNCHANGED <<kwargs, mpirun_par, system, has_fix_mesh, files, cur, fs,
                   job, npolls, status, results, outcome, retval>>
    /\ UNCHANGED mergeVars
    /\ UNCHANGED cmdVars
    /\ UNCHANGED output

\* the flag set before the try block of the Torque branch, and after the loop
FlagFinished == 0
FlagFinishedOnFailure == FlagFinished
FlagSubmitFailed == 1

\* context 'torque': flag = 1; jobid = subprocess.check_output(cmd, shell=True)
\* either a job identifier comes back, or the exception of the outer try
\* leaves the function with the flag still 1
Submit(d) ==
    /\ pc[d] = "command"
    /\ Context(d) = "torque"
    /\ \/ /\ job' = Upd(job, d, "Q")
          /\ cmd' = Upd(cmd, d, "running")
          /\ flag' = Upd(flag, d, FlagSubmitFailed)
          /\ log' = [log EXCEPT ![d] = Append(@, "cmd_start")]
          /\ pc' = Upd(pc, d, "showstart")
       \/ /\ CommandReturns(d, FlagSubmitFailed)
          /\ log' = [log EXCEPT ![d] = @ \o <<"cmd_start", "submit_failed", "cmd_return">>]
          /\ job' = job
    /\ UNCHANGED <<kwargs, mpirun_par, system, has_fix_mesh, files, cur, fs,
                   npolls, status, results, outcome, retval>>
    /\ UNCHANGED mergeVars
    /\ UNCHANGED cmdVars
    /\ UNCHANGED output

\* print(subprocess.check_output('showstart '+jobid)); its failure is swallowed
Showstart(d) ==
    /\ pc[d] = "showstart"
    /\ pc' = Upd(pc, d, "poll")
    /\ UNCHANGED <<kwargs, mpirun_par, system, has_fix_mesh, files, cur, fs, cmd,
                   flag, job, npolls, status, results, outcome, retval, log>>
    /\ UNCHANGED mergeVars
    /\ UNCHANGED cmdVars
    /\ UNCHANGED output

\* status == 'C'
IsCompleteNever(st) == FALSE
IsComplete(st) == st = "C"

\* except Exception as msg: break   (a failed poll leaves the loop)
PollErrorRetries == FALSE
PollErrorBreaks == TRUE

\* one turn of "while True": qstat -a jobid, the status token, break or sleep
Poll(d) ==
    /\ pc[d] = "poll"
    /\ npolls' = Upd(npolls, d, Min(npolls[d] + 1, MaxPolls))
    /\ \/ \* the poll raises (qstat fails, or its output cannot be parsed)
          /\ status' = Upd(status, d, "error")
          /\ IF PollErrorBreaks
             THEN /\ CommandReturns(d, FlagFinished)
                  /\ Logged(d, "cmd_return")
             ELSE UNCHANGED <<flag, cmd, pc, log>>
       \/ /\ status' = Upd(status, d, job[d])
          /\ IF IsComplete(job[d])
             THEN /\ CommandReturns(d, FlagFinished)
                  /\ Logged(d, "cmd_return")
             ELSE UNCHANGED <<flag, cmd, pc, log>>
    /\ UNCHANGED <<kwargs, mpirun_par, system, has_fix_mesh, files, cur, fs,
                   job, results, outcome, retval>>
    /\ UNCHANGED mergeVars
    /\ UNCHANGED cmdVars
    /\ UNCHANGED output

\* the Torque scheduler: a queued job starts, a running job completes
JobAdvance(d) ==
    /\ pc[d] # "done"
    /\ job[d] \in {"Q", "R"}
    /\ job' = Upd(job, d, IF job[d] = "Q" THEN "R" ELSE "C")
    /\ UNCHANGED <<pc, kwargs, mpirun_par, system, has_fix_mesh, files, cur, fs, cmd,
                   flag, npolls, status, results, outcome, retval, log>>
    /\ UNCHANGED mergeVars
    /\ UNCHANGED cmdVars
    /\ UNCHANGED output

\* the worker (mpirun.py) reads the task artifact and overwrites it with its
\* result, or with something that cannot be unpickled; do_run reads the result
\* back from sys_file.name
WorkerWrite(d) ==
    /\ BackendRunning(d)
    /\ IsFile(fs, FileName(d, "sys"))
    /\ \E good \in BOOLEAN :
         LET task == fs[FileName(d, "sys")]
         IN /\ task.kind = "task"
            /\ fs' = [fs EXCEPT ![FileName(d, "sys")] =
                        IF good
                        THEN [kind |-> "result", open |-> FALSE,
                              data |-> Gathered(task.data, mpirun_par[d].np,
                                               system[d].work),
                              owner |-> task.owner]
                        ELSE [kind |-> "corrupt", open |-> FALSE, data |-> <<>>,
                              owner |-> task.owner]]
    /\ UNCHANGED <<pc, kwargs, mpirun_par, system, has_fix_mesh, files, cur, cmd,
                   flag, job, npolls, status, results, outcome, retval, log>>
    /\ UNCHANGED mergeVars
    /\ UNCHANGED cmdVars
    /\ UNCHANGED output

\* the worker, or anything else on the cluster, removes an artifact
WorkerRemove(d) ==
    /\ BackendRunning(d)
    /\ \E k \in 1..Len(FileKinds) :
         /\ IsFile(fs, FileName(d, FileKinds[k]))
         /\ fs' = [fs EXCEPT ![FileName(d, FileKinds[k])] = Absent]
    /\ UNCHANGED <<pc, kwargs, mpirun_par, system, has_fix_mesh, files, cur, cmd,
                   flag, job, npolls, status, results, outcome, retval, log>>
    /\ UNCHANGED mergeVars
    /\ UNCHANGED cmdVars
    /\ UNCHANGED output

\* ------------------------------------------ do_run after the command
\* if flag: sys.exit(1)   (SystemExit passes through "except: raise")
ExitsOnFlagNever(f) == FALSE
ExitsOnFlag(f) == f # 0

CheckFlag(d) ==
    /\ pc[d] = "check_flag"
    /\ IF ExitsOnFlag(flag[d])
       THEN Raise(d, "SystemExit(1)")
       ELSE /\ pc' = Upd(pc, d, "load")
            /\ outcome' = outcome
    /\ UNCHANGED <<kwargs, mpirun_par, system, has_fix_mesh, files, cur, fs, cmd,
                   flag, job, npolls, status, results, retval, log>>
    /\ UNCHANGED mergeVars
    /\ UNCHANGED cmdVars
    /\ UNCHANGED output

\* with open(sys_file.name, 'r') as open_file: results = pickle.load(open_file)
Load(d) ==
    /\ pc[d] = "load"
    /\ LET name == FileName(d, "sys")
       IN IF ~IsFile(fs, name)
          THEN Raise(d, "IOError") /\ UNCHANGED <<results, log>>
          ELSE IF fs[name].kind \in {"task", "result"}
          THEN /\ results' = Upd(results, d, fs[name].data)
               /\ Logged(d, "load")
               /\ pc' = Upd(pc, d, "merge")
               /\ outcome' = outcome
          ELSE Raise(d, "UnpicklingError") /\ UNCHANGED <<results, log>>
    /\ UNCHANGED <<kwargs, mpirun_par, system, has_fix_mesh, files, cur, fs, cmd,
                   flag, job, npolls, status, retval>>
    /\ UNCHANGED mergeVars
    /\ UNCHANGED cmdVars
    /\ UNCHANGED output

\* merge_synthetic([system, results])
MergeArgumentsSwapped(sys, res) == <<res, sys>>
MergeArguments(sys, res) == <<sys, res>>

Merge(d) ==
    /\ pc[d] = "merge"
    /\ system' = [system EXCEPT ![d].syn =
                     merge_synthetic(MergeArguments(system[d].syn, results[d])).bodies[1]]
    /\ Logged(d, "merge")
    /\ pc' = Upd(pc, d, "cleanup")
    /\ cur' = Upd(cur, d, 1)
    /\ UNCHANGED <<kwargs, mpirun_par, has_fix_mesh, files, fs, cmd,
                   flag, job, npolls, status, results, outcome, retval>>
    /\ UNCHANGED mergeVars
    /\ UNCHANGED cmdVars
    /\ UNCHANGED output

\* if os.path.isfile(file.name): os.unlink(file.name)
ShouldUnlinkAlways(fsv, name) == TRUE
ShouldUnlink(fsv, name) == IsFile(fsv, name)

Cleanup(d) ==
    /\ pc[d] = "cleanup"
    /\ LET kind == FileKinds[cur[d]]
           name == FileName(d, kind)
       IN IF ShouldUnlink(fs, name)
          THEN IF IsFile(fs, name)
               THEN /\ fs' = [fs EXCEPT ![name] = Absent]
                    /\ Logged(d, Ev.unlink[kind])
                    /\ pc' = Upd(pc, d, IF cur[d] < Len(FileKinds) THEN "cleanup" ELSE "post")
                    /\ cur' = Upd(cur, d, IF cur[d] < Len(FileKinds) THEN cur[d] + 1 ELSE 0)
                    /\ outcome' = outcome
               ELSE \* os.unlink of a file that does not exist raises
                    /\ Raise(d, "OSError")
                    /\ Logged(d, "unlink_missing")
                    /\ UNCHANGED <<fs, cur>>
          ELSE /\ pc' = Upd(pc, d, IF cur[d] < Len(FileKinds) THEN "cleanup" ELSE "post")
               /\ cur' = Upd(cur, d, IF cur[d] < Len(FileKinds) THEN cur[d] + 1 ELSE 0)
               /\ UNCHANGED <<fs, log, outcome>>
    /\ UNCHANGED <<kwargs, mpirun_par, system, has_fix_mesh, files, cmd,
                   flag, job, npolls, status, results, retval>>
    /\ UNCHANGED mergeVars
    /\ UNCHANGED cmdVars
    /\ UNCHANGED output

\* system.bin_oversampling() ... system.postprocess(time=None): six calls in a row
Post(d) ==
    /\ pc[d] = "post"
    /\ log' = [log EXCEPT ![d] = @ \o PostCalls]
    /\ pc' = Upd(pc, d, "return")
    /\ cur' = Upd(cur, d, 0)
    /\ UNCHANGED <<kwargs, mpirun_par, system, has_fix_mesh, files, fs, cmd,
                   flag, job, npolls, status, results, outcome, retval>>
    /\ UNCHANGED mergeVars
    /\ UNCHANGED cmdVars
    /\ UNCHANGED output

\* the end of do_run's else branch: no return statement
DistributedReturns == "None"

Return(d) ==
    /\ pc[d] = "return"
    /\ pc' = Upd(pc, d, "done")
    /\ outcome' = Upd(outcome, d, "returned")
    /\ retval' = Upd(retval, d, DistributedReturns)
    /\ UNCHANGED <<kwargs, mpirun_par, system, has_fix_mesh, files, cur, fs, cmd,
                   flag, job, npolls, status, results, log>>
    /\ UNCHANGED mergeVars
    /\ UNCHANGED cmdVars
    /\ UNCHANGED output

\* --------------------------------------------------- specification Spec
\* one dispatch: do_run called once (as dispatch 1) with any arguments, the
\* backend and the workers running beside it
Init ==
    /\ MergeIdle
    /\ RunIdle
    /\ CmdIdle

Step(d) ==
    \/ Call(d)
    \/ Entry(d)
    \/ FastMesh(d)
    \/ FastCall(d)
    \/ Configure(d)
    \/ Mesh(d)
    \/ PrepareLtt(d)
    \/ Create(d)
    \/ Dump(d)
    \/ Close(d)
    \/ CommandRaises(d)
    \/ Launch(d)
    \/ CmdExit(d)
    \/ Submit(d)
    \/ Showstart(d)
    \/ Poll(d)
    \/ JobAdvance(d)
    \/ WorkerWrite(d)
    \/ WorkerRemove(d)
    \/ CheckFlag(d)
    \/ Load(d)
    \/ Merge(d)
    \/ Cleanup(d)
    \/ Post(d)
    \/ Return(d)

Next == Step(1)

Spec == Init /\ [][Next]_vars

\* ------------------------------------------- specification SpecLocal
\* distributed dispatches under the Local backend, for a range of process
\* counts, of initial contents of the system and of worker output lengths
LocalStep(d) ==
    \/ CallLocal(d)
    \/ Entry(d)
    \/ Configure(d)
    \/ Mesh(d)
    \/ Create(d)
    \/ Dump(d)
    \/ Close(d)
    \/ Launch(d)
    \/ CmdExit(d)
    \/ WorkerWrite(d)
    \/ WorkerRemove(d)
    \/ CheckFlag(d)
    \/ Load(d)
    \/ Merge(d)
    \/ Cleanup(d)
    \/ Post(d)
    \/ Return(d)

NextLocal == LocalStep(1)

SpecLocal == Init /\ [][NextLocal]_vars

\* --------------------------------------------- specification SpecTwo
\* two dispatches under the Local backend that run side by side and share the
\* artifact directory; each artifact is removed by its own dispatch only
InitTwo ==
    /\ MergeIdle
    /\ RunIdleIn(SharedFs)
    /\ CmdIdle

SharedStep(d) ==
    \/ CallShared(d)
    \/ Entry(d)
    \/ Configure(d)
    \/ Mesh(d)
    \/ CreateLeast(d)
    \/ Dump(d)
    \/ Close(d)
    \/ Launch(d)
    \/ CmdExit(d)
    \/ WorkerWrite(d)
    \/ CheckFlag(d)
    \/ Load(d)
    \/ Merge(d)
    \/ Cleanup(d)
    \/ Post(d)
    \/ Return(d)

NextTwo == \E d \in DispIds : SharedStep(d)

SpecTwo == InitTwo /\ [][NextTwo]_vars

\* ------------------------------------------ specification SpecTorque
\* a dispatch under the Torque backend; the process that runs the polling
\* loop keeps running (it sleeps five seconds and polls again), so a poll that
\* stays possible is eventually made; nothing is assumed of the scheduler
TorqueStep(d) ==
    \/ CallTorque(d)
    \/ Entry(d)
    \/ Configure(d)
    \/ Mesh(d)
    \/ Create(d)
    \/ Dump(d)
    \/ Close(d)
    \/ Submit(d)
    \/ Showstart(d)
    \/ Poll(d)
    \/ JobAdvance(d)
    \/ WorkerWrite(d)
    \/ WorkerRemove(d)
    \/ CheckFlag(d)
    \/ Load(d)
    \/ Merge(d)
    \/ Cleanup(d)
    \/ Post(d)
    \/ Return(d)

NextTorque == TorqueStep(1)

SpecTorque == Init /\ [][NextTorque]_vars /\ WF_vars(Poll(1))

\* --------------------------------------------- specification SpecCmd
\* construct_mpirun_command(script, mpirun_par, args) called on its own, for
\* every bounded configuration
InitCmd ==
    /\ cc_par \in CmdConfigs
    /\ cc_args \in CmdArgs
    /\ cc_pc = "called"
    /\ cc_cmd = <<>>
    /\ cc_run = <<>>
    /\ cc_ret = NoReturn
    /\ MergeIdle
    /\ RunIdle

\* the statements up to cmd = (...).format(**locals()), and the -M/-m/-N lines
CcBuild ==
    /\ cc_pc = "called"
    /\ IF BuildRaises(cc_par)
       THEN /\ cc_pc' = "raised"
            /\ cc_cmd' = cc_cmd
       ELSE /\ cc_pc' = "built"
            /\ cc_cmd' = BuildCommand(cc_par, cc_args)
    /\ UNCHANGED <<cc_par, cc_args, cc_run, cc_ret>>
    /\ UNCHANGED mergeVars
    /\ UNCHANGED runVars

\* contexts 'mpi' and 'slurm': flag = subprocess.call(cmd, shell=True); return
CcLaunch ==
    /\ cc_pc = "built"
    /\ cc_par.context \in {"mpi", "slurm"}
    /\ cc_run' = Append(cc_run, cc_cmd)
    /\ \E f \in ExitStatuses : cc_ret' = [flag |-> f, tag |-> BackendTag(cc_par)]
    /\ cc_pc' = "returned"
    /\ UNCHANGED <<cc_par, cc_args, cc_cmd>>
    /\ UNCHANGED mergeVars
    /\ UNCHANGED runVars

\* the commands of the monitoring that follows a submission
ShowstartCommand == <<"showstart ", "jobid">>
QstatCommand == <<"qstat -a ", "jobid">>

\* context 'torque': check_output(cmd) fails and the flag stays 1, or it gives
\* a job identifier, showstart and one or more qstat polls follow, and the flag
\* is 0; return
CcSubmit ==
    /\ cc_pc = "built"
    /\ cc_par.context = "torque"
    /\ \/ /\ cc_run' = Append(cc_run, cc_cmd)
          /\ cc_ret' = [flag |-> FlagSubmitFailed, tag |-> BackendTag(cc_par)]
       \/ \E polls \in 1..MaxPolls :
            /\ cc_run' = cc_run \o <<cc_cmd, ShowstartCommand>>
                                \o [i \in 1..polls |-> QstatCommand]
            /\ cc_ret' = [flag |-> FlagFinished, tag |-> BackendTag(cc_par)]
    /\ cc_pc' = "returned"
    /\ UNCHANGED <<cc_par, cc_args, cc_cmd>>
    /\ UNCHANGED mergeVars
    /\ UNCHANGED runVars

NextCmd == CcBuild \/ CcLaunch \/ CcSubmit

SpecCmd == InitCmd /\ [][NextCmd]_vars

\* ============================================================ claims
Has(d, e) == \E i \in 1..Len(log[d]) : log[d][i] = e

\* place of the first e in the log of dispatch d, 0 when there is none
RECURSIVE Scan(_, _, _)
Scan(s, e, i) ==
    IF i > Len(s) THEN 0 ELSE IF s[i] = e THEN i ELSE Scan(s, e, i + 1)

Pos(d, e) == Scan(log[d], e, 1)

Count(d, e) == Cardinality({i \in 1..Len(log[d]) : log[d][i] = e})

\* distribution was requested: mpi given and not None
Distributed(d) == mpirun_par[d].kind \in {"True", "par"}


Written(d) == {k \in Range(FileKinds) : Has(d, Ev.dump[k])}

ArtifactsLeft(d) == {k \in Range(FileKinds) : IsFile(fs, FileName(d, k))}

ExpectedPostOrder ==
    <<"bin_oversampling", "set_time(0)", "compute_pblum_or_l3",
      "set_pblum_or_l3", "compute_scale_or_offset", "postprocess">>

IsPostCall(e) == e \in Range(ExpectedPostOrder)

PostInLog(d) == SelectSeq(log[d], IsPostCall)

IsPrefix(a, b) == Len(a) <= Len(b) /\ a = SubSeq(b, 1, Len(a))

\* C1: when control leaves the distributed path of do_run after artifacts were
\* written (normal return, SystemExit after a non-zero flag, failure while
\* loading the result), no written artifact file exists any more.
C1_CleanupOnEveryExit ==
    \A d \in DispIds :
        (/\ pc[d] = "done"
         /\ outcome[d] \in {"returned", "SystemExit(1)", "IOError", "UnpicklingError"}
         /\ Written(d) # {})
        => ArtifactsLeft(d) = {}

\* C2: with np below 2 and distribution requested, do_run ends with a
\* configuration error (the ValueError of the np check, or the error of the
\* compute parameterSet that cannot be built) and nothing has happened: no
\* artifact, no mesh call, no command.
C2_ConfigErrorBeforeSideEffects ==
    \A d \in DispIds :
        (/\ mpirun_par[d].kind = "par"
         /\ mpirun_par[d].np < 2
         /\ pc[d] \notin {"idle", "entry", "configure"})
        => /\ pc[d] = "done"
           /\ outcome[d] \in {"ValueError", "ParameterError"}
           /\ log[d] = <<>>
           /\ files[d] = NoFiles
           /\ fs = InitialFs
           /\ cmd[d] = "none"
           /\ job[d] = "none"

C2_Witness ==
    \E d \in DispIds :
        /\ mpirun_par[d].kind = "par"
        /\ mpirun_par[d].np = 1
        /\ outcome[d] = "ValueError"

\* C3: once the backend command has returned a non-zero flag, do_run ends with
\* SystemExit(1); the result is never read, nothing is merged and no
\* post-processing call is made.
C3_NonZeroFlagHalts ==
    \A d \in DispIds :
        (cmd[d] = "returned" /\ flag[d] # 0)
        => /\ pc[d] \in {"check_flag", "done"}
           /\ (pc[d] = "done" => outcome[d] = "SystemExit(1)")
           /\ ~Has(d, "load")
           /\ ~Has(d, "merge")
           /\ results[d] = <<>>
           /\ PostInLog(d) = <<>>

C3_Witness ==
    \E d \in DispIds :
        /\ cmd[d] = "returned"
        /\ flag[d] = 2
        /\ pc[d] = "done"
        /\ outcome[d] = "SystemExit(1)"
        /\ Context(d) = "slurm"

\* C4: when the backend command starts, each of the three input artifacts has
\* been created, written and closed, in that order; the result is read only
\* after the backend command has returned.
WriteOrder ==
    <<"create_sys", "dump_sys", "close_sys",
      "create_args", "dump_args", "close_args",
      "create_kwargs", "dump_kwargs", "close_kwargs">>

C4_WrittenBeforeLaunch ==
    \A d \in DispIds :
        /\ Has(d, "cmd_start") =>
             LET started == Pos(d, "cmd_start")
             IN /\ started > Len(WriteOrder)
                /\ SubSeq(log[d], started - Len(WriteOrder), started - 1) = WriteOrder
        /\ (cmd[d] = "running" /\ pc[d] \in {"wait", "showstart"}) =>
             \A k \in Range(FileKinds) :
                IsFile(fs, FileName(d, k)) => ~fs[FileName(d, k)].open
        /\ Has(d, "load") =>
             /\ 0 < Pos(d, "cmd_return")
             /\ Pos(d, "cmd_return") < Pos(d, "load")
             /\ cmd[d] = "returned"

C4_Witness ==
    \E d \in DispIds :
        /\ Has(d, "load")
        /\ Context(d) = "torque"
        /\ results[d] # <<>>

\* C5: the post-processing calls are made in the order bin_oversampling,
\* set_time(0), compute_pblum_or_l3, set_pblum_or_l3, compute_scale_or_offset,
\* postprocess; only in a distributed dispatch, after its merge; all of them
\* before a distributed dispatch returns; none on the fast path and none in a
\* dispatch that ended with an exception.
C5_PostProcessingAfterMerge ==
    \A d \in DispIds :
        LET post == PostInLog(d)
        IN /\ IsPrefix(post, ExpectedPostOrder)
           /\ post # <<>> =>
                /\ Distributed(d)
                /\ 0 < Pos(d, "merge")
                /\ Pos(d, "merge") < Pos(d, "bin_oversampling")
           /\ (pc[d] = "done" /\ outcome[d] = "returned" /\ Distributed(d)) =>
                post = ExpectedPostOrder
           /\ (pc[d] = "done" /\ outcome[d] # "returned") => post = <<>>
           /\ Has(d, "fctn") => post = <<>>

C5_Witness ==
    \E d \in DispIds :
        /\ pc[d] = "done"
        /\ outcome[d] = "returned"
        /\ Distributed(d)
        /\ PostInLog(d) = ExpectedPostOrder

\* C6: without a resource configuration (mpi absent or None) do_run calls the
\* wrapped function exactly once and returns: no artifact, no command, no
\* merge, and no validation of the keyword arguments or of np.
C6_FastPathDirect ==
    \A d \in DispIds :
        (mpirun_par[d].kind = "None" /\ pc[d] \notin {"idle", "entry"})
        => /\ pc[d] \in {"fast_mesh", "fast_call", "done"}
           /\ pc[d] = "done" =>
                /\ outcome[d] = "returned"
                /\ Count(d, "fctn") = 1
                /\ log[d] = <<MeshCall(d), "fctn">>
           /\ files[d] = NoFiles
           /\ fs = InitialFs
           /\ cmd[d] = "none"
           /\ job[d] = "none"
           /\ ~Has(d, "merge")

C6_Witness ==
    \E d \in DispIds :
        /\ mpirun_par[d].kind = "None"
        /\ pc[d] = "done"
        /\ ~kwargs[d].valid
        /\ Count(d, "fctn") = 1

\* C7: after a distributed dispatch has returned normally none of its three
\* artifact files exists, and the clean-up never called unlink on a file that
\* did not exist.
C7_NoArtifactAfterReturn ==
    \A d \in DispIds :
        /\ (pc[d] = "done" /\ outcome[d] = "returned" /\ Distributed(d)) =>
              /\ ArtifactsLeft(d) = {}
              /\ \A k \in Range(FileKinds) : FileName(d, k) \in Names
        /\ ~Has(d, "unlink_missing")
        /\ outcome[d] # "OSError"

\* the worker had removed an artifact, and the clean-up unlinked the others
C7_Witness ==
    \E d \in DispIds :
        /\ pc[d] = "done"
        /\ outcome[d] = "returned"
        /\ Distributed(d)
        /\ Has(d, "unlink_sys")
        /\ ~Has(d, "unlink_args")
        /\ Has(d, "unlink_kwargs")

\* C8: Torque: the loop is still polling only while the latest status token is
\* not 'C' and no poll has failed; it is left after a poll exactly when that
\* poll saw 'C' or failed, and the flag returned is then 0 in both cases.
C8_PollLoop ==
    \A d \in DispIds :
        /\ (pc[d] = "poll" /\ npolls[d] > 0) => status[d] \notin {"C", "error"}
        /\ (Context(d) = "torque" /\ cmd[d] = "returned" /\ npolls[d] > 0) =>
              /\ status[d] \in {"C", "error"}
              /\ flag[d] = 0
        /\ status[d] \in {"C", "error"} => (cmd[d] = "returned" /\ flag[d] = 0)

C8_Witness ==
    \E d \in DispIds :
        /\ status[d] = "error"
        /\ job[d] = "Q"
        /\ npolls[d] = 2
        /\ cmd[d] = "returned"
        /\ flag[d] = 0

\* C9: Torque: a poll is issued only after a submission that returned a job
\* identifier; after a failed submission there is no poll and the flag is 1;
\* the flag is 0 only when the submission succeeded.
C9_SubmitBeforePoll ==
    \A d \in DispIds :
        /\ npolls[d] > 0 => (job[d] # "none" /\ ~Has(d, "submit_failed"))
        /\ pc[d] \in {"showstart", "poll"} => job[d] # "none"
        /\ Has(d, "submit_failed") =>
              /\ npolls[d] = 0
              /\ cmd[d] = "returned"
              /\ flag[d] = 1
        /\ (Context(d) = "torque" /\ cmd[d] = "returned" /\ flag[d] = 0) =>
              (job[d] # "none" /\ ~Has(d, "submit_failed"))

C9_Witness ==
    \E d \in DispIds :
        /\ Has(d, "submit_failed")
        /\ pc[d] = "done"
        /\ flag[d] = 1
        /\ npolls[d] = 0

\* C10: merge_synthetic over N identical bodies: every list field of the
\* primary that is merged (the parameterSet has no 'columns', or 'columns'
\* lists the field) ends N times as long; a list field that 'columns' does not
\* list, 'columns' itself and the non-list fields are unchanged; with N = 1
\* nothing changes and the primary is returned.
AllIdentical(bodies) == \A j \in 1..Len(bodies) : bodies[j] = bodies[1]

MergeEligible(parset, key) ==
    key \in ListKeys /\ (parset.hasColumns => key \in Range(parset.columns))

C10_IdenticalBodies ==
    (merge_pc = "returned" /\ AllIdentical(list_of_bodies)) =>
        LET n == Len(list_of_bodies)
        IN /\ Len(merged[1]) = Len(list_of_bodies[1])
           /\ \A i \in 1..Len(merged[1]) :
                LET before == list_of_bodies[1][i]
                    after == merged[1][i]
                IN /\ \A key \in ListKeys :
                        IF MergeEligible(before, key)
                        THEN Len(after[key]) = n * Len(before[key])
                        ELSE after[key] = before[key]
                   /\ after.ref = before.ref
                   /\ after.columns = before.columns
                   /\ after.hasColumns = before.hasColumns
                   /\ after.context = before.context
           /\ (n = 1 => (merged = list_of_bodies /\ merge_ret = 1))

C10_Witness ==
    /\ merge_pc = "returned"
    /\ AllIdentical(list_of_bodies)
    /\ Len(list_of_bodies) = 3
    /\ Len(list_of_bodies[1]) = 2
    /\ list_of_bodies[1][1].columns = <<"flux">>
    /\ Len(list_of_bodies[1][1].flux) = 2
    /\ Len(merged[1][1].flux) = 6
    /\ Len(merged[1][1].time) = 2

\* C11: when the primary and a replica differ in their set of dataset
\* references or in the 'columns' of a reference, merge_synthetic fails with an
\* error and the primary is exactly as it was before the call.
Refs(body) == {body[i].ref : i \in 1..Len(body)}

ColumnsOf(body, ref) ==
    {<<body[i].hasColumns, body[i].columns>> : i \in {k \in 1..Len(body) : body[k].ref = ref}}

Mismatch(bodies) ==
    \E j \in 2..Len(bodies) :
        \/ Refs(bodies[j]) # Refs(bodies[1])
        \/ \E ref \in Refs(bodies[1]) : ColumnsOf(bodies[j], ref) # ColumnsOf(bodies[1], ref)

C11_MismatchFailsAtomically ==
    (merge_pc \notin {"idle", "called"} /\ Mismatch(list_of_bodies)) =>
        /\ merge_pc = "raised"
        /\ merged[1] = list_of_bodies[1]

\* C12: merge_synthetic returns the object given first; the replicas are as
\* they were; and when the bodies have the same references and columns, every
\* merged list field of the primary is its original value followed by the
\* replicas' values in the order of the input list, every other field is
\* unchanged.
RECURSIVE ReplicaValues(_, _, _, _)
ReplicaValues(bodies, i, key, j) ==
    IF j > Len(bodies) THEN <<>>
    ELSE bodies[j][i][key] \o ReplicaValues(bodies, i, key, j + 1)

C12_PrimaryThenReplicasInOrder ==
    merge_pc = "returned" =>
        /\ merge_ret = 1
        /\ Len(merged) = Len(list_of_bodies)
        /\ \A j \in 2..Len(merged) : merged[j] = list_of_bodies[j]
        /\ ~Mismatch(list_of_bodies) =>
             /\ Len(merged[1]) = Len(list_of_bodies[1])
             /\ \A i \in 1..Len(merged[1]) :
                  LET before == list_of_bodies[1][i]
                      after == merged[1][i]
                  IN \A key \in ListKeys :
                        IF MergeEligible(before, key)
                        THEN after[key] = before[key] \o ReplicaValues(list_of_bodies, i, key, 2)
                        ELSE after[key] = before[key]

C12_Witness ==
    /\ merge_pc = "returned"
    /\ merge_ret = 1
    /\ Len(list_of_bodies) = 3
    /\ ~Mismatch(list_of_bodies)
    /\ list_of_bodies[1][1].flux = <<1, 2>>
    /\ list_of_bodies[3][1].flux = <<21, 22>>
    /\ merged[1][1].flux = <<1, 2, 11, 12, 21, 22>>
    /\ merged[3][1].flux = <<21, 22>>

\* positions of a piece of text in a command line, and whether the text is
\* there followed by the given value
FlagAt(cmdline, text) == {i \in 1..Len(cmdline) : cmdline[i] = text}

Carries(cmdline, text, value) ==
    \E i \in FlagAt(cmdline, text) :
        /\ i + Len(value) <= Len(cmdline)
        /\ SubSeq(cmdline, i + 1, i + Len(value)) = value

CcDone == cc_pc \in {"built", "returned", "raised"}

\* C13: for every Slurm configuration the construction succeeds, and the
\* command line has --mem=<memory>, --time=<time>, --partition=<partition>
\* exactly when that field is non-zero / non-empty, and no such flag otherwise.
C13_SlurmFlags ==
    (cc_par.context = "slurm" /\ CcDone) =>
        /\ cc_pc # "raised"
        /\ IF cc_par.memory # 0
           THEN Carries(cc_cmd, "--mem=", Dec(cc_par.memory))
           ELSE FlagAt(cc_cmd, "--mem=") = {}
        /\ IF cc_par.time # 0
           THEN Carries(cc_cmd, "--time=", Dec(cc_par.time))
           ELSE FlagAt(cc_cmd, "--time=") = {}
        /\ IF cc_par.partition # ""
           THEN Carries(cc_cmd, "--partition=", <<cc_par.partition>>)
           ELSE FlagAt(cc_cmd, "--partition=") = {}

\* C14: for every Torque configuration with a time of m minutes the command
\* has walltime=HH:MM:SS with HH = m div 60, MM = m mod 60 (each zero padded
\* to two digits) and SS = 00, and the resource list has ,mppmem=<memory>M
\* exactly when memory is non-zero.
WallTime(m) == Pad2(m \div 60) \o <<":">> \o Pad2(m % 60) \o <<":", "0", "0">>

WallTimeRendered ==
    (cc_par.context = "torque" /\ CcDone) =>
        Carries(cc_cmd, ",walltime=", WallTime(cc_par.time))

C14_TorqueWallTimeAndMemory ==
    (cc_par.context = "torque" /\ CcDone) =>
        /\ WallTimeRendered
        /\ IF cc_par.memory # 0
           THEN Carries(cc_cmd, ",mppmem=", Dec(cc_par.memory) \o <<"M">>)
           ELSE FlagAt(cc_cmd, ",mppmem=") = {}

\* C15 as stated: for the Local backend with a process count below 2 the
\* construction fails and no external process has been launched.
C15_LocalRejectsFewProcesses ==
    (cc_par.context = "mpi" /\ cc_par.np < 2 /\ CcDone) =>
        /\ cc_pc = "raised"
        /\ cc_run = <<>>

\* C15, amended: for the Local backend the construction checks no process
\* count: for every count, also below 2, it does not fail, the command is
\* mpiexec -np <count> ..., and that command is launched.
C15_LocalLaunchesAnyCount ==
    (cc_par.context = "mpi" /\ CcDone) =>
        /\ cc_pc # "raised"
        /\ Carries(cc_cmd, "mpiexec -np ", Dec(cc_par.np) \o <<" ">>)
        /\ cc_pc = "returned" => cc_run = <<cc_cmd>>

C15_Witness ==
    /\ cc_par.context = "mpi"
    /\ cc_par.np = 1
    /\ cc_pc = "returned"
    /\ cc_run = <<cc_cmd>>
    /\ SubSeq(cc_cmd, 1, 2) = <<"mpiexec -np ", "1">>

\* C17 as stated (the part a single call shows): building the command has no
\* effect other than producing the result, so no command has been run.
C17_BuildHasNoEffect == CcDone => cc_run = <<>>

\* C17, amended: the call that returns has run the command it built, which is
\* the command line of its configuration and argument string, as the first
\* (for 'mpi' and 'slurm' the only) command, and the tag returned is the
\* context of the configuration; a call that raised has run nothing.
C17_BuiltCommandIsRun ==
    /\ cc_pc = "returned" =>
          /\ cc_run # <<>>
          /\ cc_run[1] = BuildCommand(cc_par, cc_args)
          /\ cc_par.context \in {"mpi", "slurm"} => Len(cc_run) = 1
          /\ cc_ret.tag = cc_par.context
          /\ cc_ret.flag \in ExitStatuses
    /\ cc_pc = "raised" => (cc_run = <<>> /\ cc_ret = NoReturn)

C17_Witness ==
    /\ cc_pc = "returned"
    /\ cc_par.context = "torque"
    /\ cc_args = "fctn sys args kwargs"
    /\ Len(cc_run) = 3
    /\ cc_ret = [flag |-> 0, tag |-> "torque"]

\* C18: Torque: after the resource list come -M <email>, -m <alerts>,
\* -N <jobname>, in that order, each one exactly when its own field is
\* non-empty, whatever the other two fields are.
Before(cmdline, first, second) ==
    \A i \in FlagAt(cmdline, first), j \in FlagAt(cmdline, second) : i < j

C18_TorqueOptionalFlags ==
    (cc_par.context = "torque" /\ CcDone) =>
        /\ IF cc_par.email # ""
           THEN Carries(cc_cmd, " -M ", <<cc_par.email>>)
           ELSE FlagAt(cc_cmd, " -M ") = {}
        /\ IF cc_par.alerts # ""
           THEN Carries(cc_cmd, " -m ", <<cc_par.alerts>>)
           ELSE FlagAt(cc_cmd, " -m ") = {}
        /\ IF cc_par.jobname # ""
           THEN Carries(cc_cmd, " -N ", <<cc_par.jobname>>)
           ELSE FlagAt(cc_cmd, " -N ") = {}
        /\ Before(cc_cmd, ",walltime=", " -M ")
        /\ Before(cc_cmd, " -M ", " -m ")
        /\ Before(cc_cmd, " -m ", " -N ")

\* C19: in a distributed dispatch with ltt requested, when the task is
\* serialized every body of the system has exactly one 'orbsyn' parameterSet,
\* with ref 'ltt' and empty, made by prepare_ltt before the first artifact was
\* created; without ltt prepare_ltt is not called and the system never has an
\* 'orbsyn' parameterSet.
Orbsyns(syn, b) ==
    {i \in 1..Len(syn) : syn[i].context = "orbsyn" /\ syn[i].body = b}

HasPlaceholders(syn, nb) ==
    \A b \in 1..nb :
        /\ Cardinality(Orbsyns(syn, b)) = 1
        /\ \A i \in Orbsyns(syn, b) : syn[i] = OrbsynPlaceholder(b)

NoOrbsyn(syn) == \A i \in 1..Len(syn) : syn[i].context # "orbsyn"

SerializedTask(d) == fs[FileName(d, "sys")].data

TaskSerialized(d) ==
    /\ IsFile(fs, FileName(d, "sys"))
    /\ fs[FileName(d, "sys")].kind = "task"

C19_LttPlaceholders ==
    \A d \in DispIds :
        IF kwargs[d].ltt
        THEN /\ TaskSerialized(d) =>
                  /\ HasPlaceholders(SerializedTask(d), system[d].nb)
                  /\ 0 < Pos(d, "prepare_ltt")
                  /\ Pos(d, "prepare_ltt") < Pos(d, "create_sys")
             /\ Count(d, "prepare_ltt") <= 1
        ELSE /\ ~Has(d, "prepare_ltt")
             /\ NoOrbsyn(system[d].syn)
             /\ TaskSerialized(d) => NoOrbsyn(SerializedTask(d))

C19_Witness ==
    \E d \in DispIds :
        /\ kwargs[d].ltt
        /\ system[d].nb = 2
        /\ TaskSerialized(d)
        /\ Len(SerializedTask(d)) = 4
        /\ SerializedTask(d)[4] = OrbsynPlaceholder(2)
        /\ cmd[d] = "running"

\* the values of np workers that produce len values each, in the order the
\* workers were started
RECURSIVE WorkerValues(_, _, _)
WorkerValues(np, len, rank) ==
    IF rank > np THEN <<>>
    ELSE MkList(len, rank) \o WorkerValues(np, len, rank + 1)

\* a Local dispatch has returned, and the result it read held, for every
\* dataset, the values of its np workers in that order
LocalMerged(d) ==
    /\ Context(d) = "mpi"
    /\ pc[d] = "done"
    /\ outcome[d] = "returned"
    /\ Has(d, "merge")
    /\ results[d] # <<>>
    /\ \A i \in 1..Len(results[d]) :
          results[d][i].flux = WorkerValues(mpirun_par[d].np, system[d].work, 1)

\* C16 as stated: after a Local dispatch with np workers that produce L values
\* each, every merged list of every dataset of the system holds np*L values,
\* the workers' values in the order the workers were started.
C16_MergedLengthNpTimesL ==
    \A d \in DispIds :
        LocalMerged(d) =>
            \A i \in 1..Len(system[d].syn) :
                /\ Len(system[d].syn[i].flux) = mpirun_par[d].np * system[d].work
                /\ system[d].syn[i].flux = WorkerValues(mpirun_par[d].np, system[d].work, 1)

\* C16, amended: every merged list holds the L0 values it held before the
\* dispatch, followed by the np*L values of the workers in the order the
\* workers were started: L0 + np*L values, which is np*L when L0 = 0; a list
\* that 'columns' does not name is as before.
C16_OwnValuesThenWorkers ==
    \A d \in DispIds :
        LocalMerged(d) =>
            /\ Len(system[d].syn) = system[d].nb
            /\ \A i \in 1..Len(system[d].syn) :
                 LET parset == system[d].syn[i]
                     own == MkList(system[d].len0, 0)
                     added == WorkerValues(mpirun_par[d].np, system[d].work, 1)
                 IN /\ parset.flux = own \o added
                    /\ parset.time = own \o added
                    /\ parset.sigma = own
                    /\ Len(parset.flux) =
                          system[d].len0 + mpirun_par[d].np * system[d].work

C16_Witness ==
    \E d \in DispIds :
        /\ LocalMerged(d)
        /\ mpirun_par[d].np = 4
        /\ system[d].work = 2
        /\ system[d].len0 = 1
        /\ system[d].nb = 2
        /\ system[d].syn[2].flux = <<1, 11, 12, 21, 22, 31, 32, 41, 42>>

\* C20: two dispatches that share the artifact directory, in any interleaving:
\* the names a dispatch holds (given to it and not yet unlinked by it) are
\* distinct from one another and from the names the other dispatch holds;
\* every file a dispatch holds exists and is the file it created, so its
\* result is read from its own artifact and a clean-up removes no artifact of
\* the other dispatch; the result read is the one of the dispatch's own task.
Holds(d, kind) == FileName(d, kind) # 0 /\ ~Has(d, Ev.unlink[kind])

StillPolling(d) == pc'[d] = "poll"

C21_PollingEnds ==
    /\ [][Poll(1) => (StillPolling(1) <=> status'[1] \notin {"C", "error"})]_vars
    /\ [][(pc[1] = "poll" /\ ~StillPolling(1)) => Poll(1)]_vars
    /\ (pc[1] = "poll" /\ job[1] = "C") ~> (pc[1] # "poll")

\* the polls counted have reached the cap, the job is still queued, and the
\* loop is still polling
C21_Witness ==
    /\ pc[1] = "poll"
    /\ npolls[1] = MaxPolls
    /\ job[1] = "Q"
    /\ status[1] = "Q"

\* C22: a call that took the fast path returns to its caller the value the
\* wrapped function returned to it, whatever that value is; a distributed
\* dispatch that succeeds never calls the wrapped function in this process and
\* returns None, and its result is in the system object it was passed: the
\* datasets of that object are the ones it held when the task was written,
\* extended in place by the result that was read back.
Passed(d) == MkSystem(system[d].nb, system[d].len0, system[d].work)

Sent(d) == IF Has(d, "prepare_ltt") THEN prepare_ltt(Passed(d)) ELSE Passed(d)

Returned(d) == pc[d] = "done" /\ outcome[d] = "returned"

C22_ReturnValueOrMutation ==
    \A d \in DispIds :
        /\ (Returned(d) /\ Has(d, "fctn")) =>
              /\ ~Distributed(d)
              /\ output[d] \in FctnOutputs
              /\ retval[d] = output[d]
              /\ ~Has(d, "merge")
        /\ (Returned(d) /\ ~Has(d, "fctn")) =>
              /\ Distributed(d)
              /\ output[d] = "none"
              /\ retval[d] = "None"
              /\ Has(d, "merge")
              /\ system[d].syn =
                    merge_synthetic(MergeArguments(Sent(d).syn, results[d])).bodies[1]
              /\ system[d].syn # Sent(d).syn
        /\ Returned(d) <=> retval[d] # "none"

\* a distributed dispatch returned None, and the first dataset of the system it
\* was passed holds more values than before the call
C22_Witness ==
    /\ Returned(1)
    /\ ~Has(1, "fctn")
    /\ Has(1, "merge")
    /\ retval[1] = "None"
    /\ output[1] = "none"
    /\ Len(system[1].syn[1].flux) > system[1].len0

\* a fast call returned a value of the wrapped function other than None
FastPathReturnedValue ==
    /\ Returned(1)
    /\ Has(1, "fctn")
    /\ output[1] = "a"
    /\ retval[1] = "a"

====
